---- MODULE Spec2Model ----
(***************************************************************************)
(* The game loop of helping-hand: GameManager (src/src/core/game.py) and   *)
(* BoardHandler (src/src/core/board.py), with the message queue of the    *)
(* window (src/src/gui/main_window.py).  The external channel is the move  *)
(* list of the remote page; the legality oracle (python-chess) is          *)
(* abstracted to a small game with position-dependent legality.            *)
(***************************************************************************)
EXTENDS Integers, Sequences, FiniteSets, TLC

VARIABLES
    pc,                 \* position of the game thread
    board,              \* self.board.move_stack: the moves pushed, in UCI
    move_number,        \* play_game's local move_number
    our_color,          \* "W" or "B"
    consecutive_errors, \* play_game's local consecutive_errors
    current_suggestion, \* self._current_suggestion ("none" for None)
    arrow_drawn,        \* self._arrow_drawn
    make_move,          \* the keyboard handler's latch
    autoplay,           \* config_manager.is_autoplay_enabled
    show_arrow,         \* config_manager.show_arrow
    channel,            \* the page's move list: channel[n] is the text of slot n
    game_over,          \* the page shows the follow-up element
    pressed,            \* history: a key press happened since the last gated submission
    last,               \* history: what the last step did
    gui_queue,          \* ChessBotGUI.gui_queue: the board_update messages
    board_state,        \* ChessBotGUI.board_state: the position displayed
    is_running,         \* ChessBotGUI.is_running; FALSE too when there is no GUI
    gui_our_color,      \* ChessBotGUI.our_color: the perspective displayed
    strategies,         \* the page under one read of a slot: what each lookup finds
    moves,              \* MoveHistoryWidget.moves: the rows (pair_number, white, black)
    current_move_number, \* MoveHistoryWidget.current_move_number
    interface,          \* the page under one turn detection: input, clocks, texts
    config_file         \* config.ini: whether it exists, its [general] options

vars == <<pc, board, move_number, our_color, consecutive_errors,
          current_suggestion, arrow_drawn, make_move, autoplay, show_arrow,
          channel, game_over, pressed, last,
          gui_queue, board_state, is_running, gui_our_color,
          strategies, moves, current_move_number, interface, config_file>>

\* The state of the presentation thread
guivars == <<gui_queue, board_state, is_running, gui_our_color>>

\* The state of the components checked on their own: the page under one read
\* of a slot, and the move history widget
partvars == <<strategies, moves, current_move_number, interface,
             config_file>>

----------------------------------------------------------------------------
(* Bounds *)

MaxPly == 2

MaxSync == 3

\* The board_update messages waiting in gui_queue
MaxQueue == 1

\* The plies added to the move history widget
MaxHistory == 4

\* The running clocks the page shows at once
MaxClocks == 2

\* The elements the turn-indicator selectors find
MaxIndicators == 1

\* The passes of the synchronization loop that are followed
MaxPasses == 1024

----------------------------------------------------------------------------
(* The legality oracle: moves in UCI, their SAN texts, and which are legal *)

WhiteMoves == {"e2e4", "g1f3"}

BlackMoves == {"e7e5"}

Moves == WhiteMoves \cup BlackMoves

San(m) ==
    CASE m = "e2e4" -> "e4"
      [] m = "g1f3" -> "Nf3"
      [] m = "e7e5" -> "e5"

\* board.turn: chess.WHITE (TRUE) when an even number of moves was pushed
Turn(h) == Len(h) % 2 = 0

Played(h) == {h[i] : i \in 1..Len(h)}

LegalMoves(h) ==
    {m \in (IF Turn(h) THEN WhiteMoves ELSE BlackMoves) : m \notin Played(h)}

\* board.parse_san: the legal move the text denotes, "error" when it raises
ParseSan(h, text) ==
    IF \E m \in LegalMoves(h) : San(m) = text
    THEN CHOOSE m \in LegalMoves(h) : San(m) = text
    ELSE "error"

\* The texts a slot of the move list shows during a game: the first move of
\* either side, a text that is no move, the placeholder
Texts == {San(m) : m \in {"e2e4", "e7e5"}} \cup {"Zz9", "..."}

\* The texts of a slot when the list is synchronized: any move, a text that
\* is no move, the placeholder, an element with no text
SyncTexts == {San(m) : m \in Moves} \cup {"Zz9", "...", ""}

Channels == UNION {[1..n -> Texts] : n \in 0..MaxPly}

\* The move lists the synchronization is checked on
SyncChannels == UNION {[1..n -> SyncTexts] : n \in 0..MaxSync}

\* Move lists longer than the safety limit of the synchronization: every
\* slot an element, placeholders after the first
LongChannels ==
    {[i \in 1..1000 |-> IF i = 1 THEN t ELSE "..."] : t \in SyncTexts}

----------------------------------------------------------------------------
(* BoardHandler *)

SyncLimit == 999

\* element.text.strip() on the texts a slot can show
Strip(t) ==
    CASE t = " " -> ""
      [] t = "e4 " -> "e4"
      [] OTHER -> t

\* The four lookups of find_move_by_alternatives
StrategyNames == {"class_name", "xpath_short", "xpath_medium", "xpath_absolute"}

\* What one lookup finds for slot n: "error" when the driver raises on a
\* channel error, "absent" when the page has no such element (the class-name
\* list is shorter than n, the path raises NoSuchElement), else the text of
\* the element found
Outcomes == {"error", "absent", "", " ", "...", "e4 ", "e5"}

\* The pages one read is checked on: an outcome for each lookup
Pages == [StrategyNames -> Outcomes]

\* The lookup returns an element and its stripped text is not empty
Yields(o) == o \notin {"error", "absent"} /\ Strip(o) # ""

\* Mutant: the first lookup that finds an element answers, whatever its text
RECURSIVE TryStrategiesFirstElement(_, _, _)
TryStrategiesFirstElement(page, order, i) ==
    IF i > Len(order)
    THEN [text |-> "none", by |-> "none", tried |-> Len(order)]
    ELSE IF page[order[i]] \notin {"error", "absent"}
    THEN [text |-> page[order[i]], by |-> order[i], tried |-> i]
    ELSE TryStrategiesFirstElement(page, order, i + 1)

\* The lookups in the order given, up to the first that yields text
RECURSIVE TryStrategies(_, _, _)
TryStrategies(page, order, i) ==
    IF i > Len(order)
    THEN [text |-> "none", by |-> "none", tried |-> Len(order)]
    ELSE IF Yields(page[order[i]])
    THEN [text |-> page[order[i]], by |-> order[i], tried |-> i]
    ELSE TryStrategies(page, order, i + 1)

\* find_move_by_alternatives on a page: the element returned (as its text
\* and the lookup that found it), "none" for None
FindMoveByStrategies(page) ==
    TryStrategies(page,
                  <<"class_name", "xpath_short", "xpath_medium",
                    "xpath_absolute">>, 1)

\* find_move_by_alternatives on a move list ch, where every lookup addresses
\* slot n of the same list: the element of slot n, as its text; "none" when
\* no strategy yields text
FindMoveByAlternatives(ch, n) ==
    IF n <= Len(ch) /\ ch[n] # "" THEN ch[n] ELSE "none"

CheckForMove(ch, n) ==
    LET move_element == FindMoveByAlternatives(ch, n)
    IN  IF move_element # "none" /\ move_element # "..."
        THEN move_element
        ELSE "none"

\* check_for_move once the lookup has answered: the text is read again
CheckText(move_element) ==
    IF move_element # "none" /\ Strip(move_element) \notin {"", "..."}
    THEN Strip(move_element)
    ELSE "none"

\* check_for_move on a page: the text returned, "none" for None, or raised
\* when reading the text of the element found raises
CheckForMoveOn(page) ==
    LET e == FindMoveByStrategies(page)
        r == [text |-> CheckText(e.text), raised |-> FALSE,
              by |-> e.by, tried |-> e.tried]
    IN  IF e.text = "none"
        THEN {r}
        ELSE {r, [r EXCEPT !.text = "none", !.raised = TRUE]}

\* Mutant: the text is resolved without the position, and pushed unchecked
ValidateAndPushMoveUnchecked(h, move_text) ==
    IF \E m \in Moves : San(m) = move_text
    THEN [ok |-> TRUE,
          board |-> Append(h, CHOOSE m \in Moves : San(m) = move_text),
          diag |-> 0]
    ELSE [ok |-> FALSE, board |-> h, diag |-> 1]

ValidateAndPushMove(h, move_text) ==
    LET test_move == ParseSan(h, move_text)
    IN  IF test_move = "error"
        THEN [ok |-> FALSE, board |-> h, diag |-> 1]
        ELSE IF test_move \in LegalMoves(h)
        THEN [ok |-> TRUE, board |-> Append(h, test_move), diag |-> 0]
        ELSE [ok |-> FALSE, board |-> h, diag |-> 1]

\* Mutant: a text that does not parse is captured and skipped, not stopped at
SyncIterSkipsBad(ch, s) ==
    IF s.temp >= SyncLimit
    THEN [s EXCEPT !.done = TRUE]
    ELSE LET move_text == FindMoveByAlternatives(ch, s.temp)
         IN  IF move_text # "none"
             THEN IF move_text = "" \/ move_text = "..."
                  THEN [s EXCEPT !.temp = @ + 1, !.reads = s.temp]
                  ELSE IF ParseSan(s.board, move_text) # "error"
                  THEN [s EXCEPT !.temp = @ + 1, !.reads = s.temp,
                                 !.board = Append(@, ParseSan(@, move_text))]
                  ELSE [s EXCEPT !.temp = @ + 1, !.reads = s.temp]
             ELSE [s EXCEPT !.reads = s.temp, !.done = TRUE,
                            !.diag = IF s.temp # 1 /\ s.temp <= 3
                                     THEN 1 ELSE 0]

\* Mutant: the safety limit lets ply 999 be read as well
SyncIterPastLimit(ch, s) ==
    IF s.temp > SyncLimit
    THEN [s EXCEPT !.done = TRUE]
    ELSE LET move_text == FindMoveByAlternatives(ch, s.temp)
         IN  IF move_text # "none"
             THEN IF move_text = "" \/ move_text = "..."
                  THEN [s EXCEPT !.temp = @ + 1, !.reads = s.temp]
                  ELSE IF ParseSan(s.board, move_text) # "error"
                  THEN [s EXCEPT !.temp = @ + 1, !.reads = s.temp,
                                 !.board = Append(@, ParseSan(@, move_text))]
                  ELSE [s EXCEPT !.reads = s.temp, !.diag = 1, !.done = TRUE]
             ELSE [s EXCEPT !.reads = s.temp, !.done = TRUE,
                            !.diag = IF s.temp # 1 /\ s.temp <= 3
                                     THEN 1 ELSE 0]

\* One pass of the while loop of get_previous_moves: its condition, then its
\* body. s holds temp_move_number, the board, whether diagnostics were
\* saved, the highest ply looked at, and whether the loop was left.
SyncIter(ch, s) ==
    IF s.temp >= SyncLimit
    THEN [s EXCEPT !.done = TRUE]
    ELSE LET move_text == FindMoveByAlternatives(ch, s.temp)
         IN  IF move_text # "none"
             THEN IF move_text = "" \/ move_text = "..."
                  THEN [s EXCEPT !.temp = @ + 1, !.reads = s.temp]
                  ELSE IF ParseSan(s.board, move_text) # "error"
                  THEN [s EXCEPT !.temp = @ + 1, !.reads = s.temp,
                                 !.board = Append(@, ParseSan(@, move_text))]
                  ELSE [s EXCEPT !.reads = s.temp, !.diag = 1, !.done = TRUE]
             ELSE [s EXCEPT !.reads = s.temp, !.done = TRUE,
                            !.diag = IF s.temp # 1 /\ s.temp <= 3
                                     THEN 1 ELSE 0]

\* Up to k passes of the loop, none after the one that leaves it; the passes
\* are split in halves so that a long run is evaluated at a small depth
RECURSIVE SyncRun(_, _, _)
SyncRun(ch, s, k) ==
    IF s.done \/ k = 0
    THEN s
    ELSE IF k = 1
    THEN SyncIter(ch, s)
    ELSE SyncRun(ch, SyncRun(ch, s, k \div 2), k - (k \div 2))

\* The while loop of get_previous_moves from temp_move_number = temp
SyncLoop(ch, temp, h) ==
    LET s == SyncRun(ch, [temp |-> temp, board |-> h, diag |-> 0,
                          reads |-> temp - 1, done |-> FALSE], MaxPasses)
    IN  [n |-> s.temp, board |-> s.board, diag |-> s.diag,
         reads |-> s.reads, done |-> s.done]

\* Mutant: the loop goes on from ply 2 after the first slot was looked at
GetPreviousMovesFromSecond(ch, h) ==
    IF FindMoveByAlternatives(ch, 1) = "none"
    THEN [n |-> 1, board |-> h, diag |-> 0, reads |-> 1, done |-> TRUE]
    ELSE SyncLoop(ch, 2, h)

GetPreviousMoves(ch, h) ==
    IF FindMoveByAlternatives(ch, 1) = "none"
    THEN [n |-> 1, board |-> h, diag |-> 0, reads |-> 1, done |-> TRUE]
    ELSE SyncLoop(ch, 1, h)

\* Mutant: the move text is typed first, then the return keystroke, the clear
ExecuteMoveTypesFirst(move) ==
    LET all == <<move, "RETURN", "CLEAR">>
    IN  {[raised |-> TRUE, writes |-> <<>>]}
        \cup {[raised |-> FALSE, writes |-> SubSeq(all, 1, k)] : k \in 0..3}

\* execute_move: it raises when the arrows cannot be cleared or no move
\* input is found; otherwise the three writes are attempted and a failure
\* among them is swallowed, leaving the first k of them done
ExecuteMove(move) ==
    LET all == <<"RETURN", "CLEAR", move>>
    IN  {[raised |-> TRUE, writes |-> <<>>]}
        \cup {[raised |-> FALSE, writes |-> SubSeq(all, 1, k)] : k \in 0..3}

\* The class tokens of the move input, of a running clock; the texts of a
\* turn indicator
InputClasses == SUBSET {"ready", "disabled"}

ClockClasses == {{}, {"top"}, {"bottom"}, {"bottom", "black"}}

IndicatorTexts == {"", "Your turn", "Waiting for opponent"}

\* element.text.lower()
Lower(t) ==
    CASE t = "Your turn" -> "your turn"
      [] t = "True" -> "true"
      [] t = "Waiting for opponent" -> "waiting for opponent"
      [] OTHER -> t

\* phrase in text, on the lower-case texts
Contains(text, phrase) ==
    \/ text = "your turn" /\ phrase = "your turn"
    \/ text = "waiting for opponent" /\ phrase \in {"opponent", "waiting"}

\* What the page shows to one turn detection: the move input (found "error"
\* when reading it raises, "none" when there is no handle), the running
\* clocks and the indicator elements (status "error" when the lookup
\* raises), and the orientation determine_player_color finds ("error" when
\* it raises)
InterfacePages ==
    [input : ([found : {"error", "none"}, enabled : {FALSE}, class : {{}}]
              \cup [found : {"yes"}, enabled : BOOLEAN,
                    class : InputClasses]),
     clocks : ([status : {"error"}, list : {<<>>}]
               \cup [status : {"ok"},
                     list : UNION {[1..n -> ClockClasses] :
                                      n \in 0..MaxClocks}]),
     orientation : {"W", "B", "error"},
     indicators : ([status : {"error"}, list : {<<>>}]
                   \cup [status : {"ok"},
                         list : UNION {[1..n -> IndicatorTexts] :
                                          n \in 0..MaxIndicators}])]

\* Method 1: the state of the move input
InputAnswer(input) ==
    IF input.found # "yes"
    THEN "none"
    ELSE IF input.enabled /\ "ready" \in input.class
    THEN "yes"
    ELSE IF ~input.enabled \/ "disabled" \in input.class
    THEN "no"
    ELSE "none"

\* Method 2: the first running clock that is attributed to a colour; "error"
\* when determine_player_color raises
RECURSIVE ClockAnswer(_, _, _)
ClockAnswer(list, i, orientation) ==
    IF i > Len(list)
    THEN "none"
    ELSE IF "top" \in list[i] \/ "black" \in list[i]
    THEN IF orientation = "error" THEN "error"
         ELSE IF orientation = "B" THEN "yes" ELSE "no"
    ELSE IF "bottom" \in list[i] \/ "white" \in list[i]
    THEN IF orientation = "error" THEN "error"
         ELSE IF orientation = "W" THEN "yes" ELSE "no"
    ELSE ClockAnswer(list, i + 1, orientation)

\* Method 3: the first indicator element whose text says whose turn it is
RECURSIVE IndicatorAnswer(_, _)
IndicatorAnswer(list, i) ==
    IF i > Len(list)
    THEN "none"
    ELSE LET element_text == Lower(list[i])
         IN  IF Contains(element_text, "your turn")
                \/ Contains(element_text, "you to move")
             THEN "yes"
             ELSE IF Contains(element_text, "opponent")
                     \/ Contains(element_text, "waiting")
             THEN "no"
             ELSE IndicatorAnswer(list, i + 1)

\* Mutant: the clock is consulted before the move input
IsOurTurnViaInterfaceClockFirst(page) ==
    LET a1 == InputAnswer(page.input)
        a2 == IF page.clocks.status = "error"
              THEN "error"
              ELSE ClockAnswer(page.clocks.list, 1, page.orientation)
        a3 == IF page.indicators.status = "error"
              THEN "error"
              ELSE IndicatorAnswer(page.indicators.list, 1)
    IN  IF page.input.found = "error"
        THEN [turn |-> "none", by |-> "none"]
        ELSE IF a2 \in {"yes", "no"}
        THEN [turn |-> a2, by |-> "clock"]
        ELSE IF a1 # "none"
        THEN [turn |-> a1, by |-> "input"]
        ELSE IF a3 \in {"yes", "no"}
        THEN [turn |-> a3, by |-> "indicator"]
        ELSE [turn |-> "none", by |-> "none"]

\* is_our_turn_via_interface: "yes" for True, "no" for False, "none" for None,
\* and the method that answered
IsOurTurnViaInterface(page) ==
    LET a1 == InputAnswer(page.input)
        a2 == IF page.clocks.status = "error"
              THEN "error"
              ELSE ClockAnswer(page.clocks.list, 1, page.orientation)
        a3 == IF page.indicators.status = "error"
              THEN "error"
              ELSE IndicatorAnswer(page.indicators.list, 1)
    IN  IF page.input.found = "error"
        THEN [turn |-> "none", by |-> "none"]
        ELSE IF a1 # "none"
        THEN [turn |-> a1, by |-> "input"]
        ELSE IF a2 \in {"yes", "no"}
        THEN [turn |-> a2, by |-> "clock"]
        ELSE IF a3 \in {"yes", "no"}
        THEN [turn |-> a3, by |-> "indicator"]
        ELSE [turn |-> "none", by |-> "none"]

-----------------------------------------------------------------------------
(* ConfigManager *)

\* The option names config.ini can spell in its [general] section, and the
\* values it can give them; "absent" marks an option the file does not have
FileKeys == {"auto-play", "AutoPlay", "arrow"}

FileValues == {"true", "True", "false", "1"}

ConfigFiles ==
    {f \in [exists : BOOLEAN,
            general : [FileKeys -> FileValues \cup {"absent"}]] :
        ~f.exists => \A k \in FileKeys : f.general[k] = "absent"}

\* A file that sets the two switches as given
FileFor(a, arrow) ==
    [exists |-> TRUE,
     general |-> [k \in FileKeys |->
                    CASE k = "auto-play" -> IF a THEN "true" ELSE "false"
                      [] k = "arrow" -> IF arrow THEN "true" ELSE "false"
                      [] OTHER -> "absent"]]

\* configparser's optionxform: option names are stored in lower case
OptionXForm(k) ==
    CASE k = "AutoPlay" -> "autoplay"
      [] OTHER -> k

\* self.defaults["general"]
DefaultKeys == {"move-key", "arrow", "auto-play"}

Defaults ==
    [k \in DefaultKeys |-> IF k = "move-key" THEN "end" ELSE "true"]

OptionNames == {OptionXForm(k) : k \in FileKeys} \cup DefaultKeys

\* _load_config: the [general] options of the parser once the file was read,
\* or once the defaults were set when there is no file
LoadConfig(file) ==
    IF file.exists
    THEN [o \in OptionNames |->
            IF \E k \in FileKeys :
                  OptionXForm(k) = o /\ file.general[k] # "absent"
            THEN file.general[CHOOSE k \in FileKeys :
                                 OptionXForm(k) = o /\ file.general[k] # "absent"]
            ELSE "absent"]
    ELSE [o \in OptionNames |->
            IF o \in DefaultKeys THEN Defaults[o] ELSE "absent"]

\* _create_default_config writes the defaults to the file it creates
WrittenFile(file) ==
    IF file.exists
    THEN file
    ELSE [exists |-> TRUE,
          general |-> [k \in FileKeys |->
                         IF k \in DefaultKeys THEN Defaults[k] ELSE "absent"]]

\* get("general", key, fallback)
Get(config, key, fallback) ==
    IF config[key] # "absent"
    THEN config[key]
    ELSE IF key \in DefaultKeys
    THEN Defaults[key]
    ELSE fallback

IsAutoplayEnabled(config) == Lower(Get(config, "auto-play", "false")) = "true"

ShowArrow(config) == Lower(Get(config, "arrow", "true")) = "true"

----------------------------------------------------------------------------
(* GameManager: the handlers of one tick.  Each returns what it leaves     *)
(* behind: the board, the move number it returns, the suggestion tracking, *)
(* the latch, whether it raised, and what it did on the way.               *)

max_consecutive_errors == 5

\* start_new_game's max_attempts
max_attempts == 3

\* A handler that did nothing
Quiet(h, mn, sug, drawn, lt) ==
    [board |-> h, move_number |-> mn, sug |-> sug, drawn |-> drawn,
     latch |-> lt, raised |-> FALSE, slot |-> "none", vp |-> "none",
     asked |-> 0, move |-> "none", submits |-> 0, writes |-> <<>>,
     draws |-> 0, diag |-> 0, updates |-> 0]

\* validate_game_state(board, move_number)
ValidateGameState(h, mn) == mn - 1 = Len(h)

\* Mutant: on a disagreement the board-derived signal is returned
IsOurTurnBoardWins(interface_turn, h, color) ==
    LET board_turn == (Turn(h) /\ color = "W") \/ (~Turn(h) /\ color = "B")
    IN  IF interface_turn # "none"
        THEN IF (interface_turn = "yes") # board_turn
             THEN board_turn
             ELSE interface_turn = "yes"
        ELSE board_turn

IsOurTurn(interface_turn, h, color) ==
    LET board_turn == (Turn(h) /\ color = "W") \/ (~Turn(h) /\ color = "B")
    IN  IF interface_turn # "none"
        THEN IF (interface_turn = "yes") # board_turn
             THEN interface_turn = "yes"
             ELSE interface_turn = "yes"
        ELSE board_turn

\* Mutant: a disagreement of the two signals is an error
IsOurTurnCallFatal(interface_turn, h, mn, color, sug, drawn) ==
    LET board_turn == (Turn(h) /\ color = "W") \/ (~Turn(h) /\ color = "B")
        mismatch == interface_turn # "none"
                    /\ (interface_turn = "yes") # board_turn
    IN  [our_turn |-> IsOurTurn(interface_turn, h, color),
         raised |-> mismatch, logged |-> mismatch,
         board |-> h, move_number |-> mn, sug |-> sug, drawn |-> drawn]

\* One call of _is_our_turn: the value it returns, the mismatch it logs, and
\* what it leaves behind
IsOurTurnCall(interface_turn, h, mn, color, sug, drawn) ==
    LET board_turn == (Turn(h) /\ color = "W") \/ (~Turn(h) /\ color = "B")
        mismatch == interface_turn # "none"
                    /\ (interface_turn = "yes") # board_turn
    IN  [our_turn |-> IsOurTurn(interface_turn, h, color),
         raised |-> FALSE, logged |-> mismatch,
         board |-> h, move_number |-> mn, sug |-> sug, drawn |-> drawn]

\* Mutant: the move is submitted and the next ply returned, but not pushed
ExecuteAutoMoveNoPush(h, mn, sug, drawn, lt, move) ==
    LET q == [Quiet(h, mn, sug, drawn, lt) EXCEPT
                 !.draws = IF show_arrow THEN 1 ELSE 0]
    IN  (IF show_arrow THEN {[q EXCEPT !.raised = TRUE, !.draws = 0]} ELSE {})
        \cup {IF ex.raised
              THEN [q EXCEPT !.raised = TRUE]
              ELSE [q EXCEPT !.move_number = mn + 1,
                             !.submits = 1,
                             !.updates = 1,
                             !.writes = ex.writes] : ex \in ExecuteMove(move)}

\* The outcomes of each handler are a set: a call to the page (a script, an
\* element lookup) or to the engine may raise wherever the code makes one
ExecuteAutoMove(h, mn, sug, drawn, lt, move) ==
    LET q == [Quiet(h, mn, sug, drawn, lt) EXCEPT
                 !.draws = IF show_arrow THEN 1 ELSE 0]
    IN  (IF show_arrow THEN {[q EXCEPT !.raised = TRUE, !.draws = 0]} ELSE {})
        \cup {IF ex.raised
              THEN [q EXCEPT !.raised = TRUE]
              ELSE [q EXCEPT !.board = Append(h, move),
                             !.move_number = mn + 1,
                             !.submits = 1,
                             !.updates = 1,
                             !.writes = ex.writes] : ex \in ExecuteMove(move)}

\* Mutant: the arrow is drawn on every handling, drawn before or not
HandleManualMoveRedraws(h, mn, sug, drawn, lt, move) ==
    LET drawn1 == IF sug # move THEN FALSE ELSE drawn
        draw == show_arrow
        q == [Quiet(h, mn, move, drawn1, lt) EXCEPT
                 !.draws = IF draw THEN 1 ELSE 0,
                 !.drawn = drawn1 \/ draw]
    IN  (IF draw
         THEN {[q EXCEPT !.raised = TRUE, !.draws = 0, !.drawn = drawn1]}
         ELSE {})
        \cup (IF lt
              THEN {IF ex.raised
                    THEN [q EXCEPT !.raised = TRUE]
                    ELSE [q EXCEPT !.board = Append(h, move),
                                   !.move_number = mn + 1,
                                   !.latch = FALSE,
                                   !.submits = 1,
                             !.updates = 1,
                                   !.writes = ex.writes,
                                   !.sug = "none",
                                   !.drawn = FALSE] : ex \in ExecuteMove(move)}
              ELSE {q})

\* Mutant: the latch is not reset after the submission
HandleManualMoveNoReset(h, mn, sug, drawn, lt, move) ==
    LET drawn1 == IF sug # move THEN FALSE ELSE drawn
        draw == show_arrow /\ ~drawn1
        q == [Quiet(h, mn, move, drawn1, lt) EXCEPT
                 !.draws = IF draw THEN 1 ELSE 0,
                 !.drawn = drawn1 \/ draw]
    IN  (IF draw
         THEN {[q EXCEPT !.raised = TRUE, !.draws = 0, !.drawn = drawn1]}
         ELSE {})
        \cup (IF lt
              THEN {IF ex.raised
                    THEN [q EXCEPT !.raised = TRUE]
                    ELSE [q EXCEPT !.board = Append(h, move),
                                   !.move_number = mn + 1,
                                   !.submits = 1,
                             !.updates = 1,
                                   !.writes = ex.writes,
                                   !.sug = "none",
                                   !.drawn = FALSE] : ex \in ExecuteMove(move)}
              ELSE {q})

\* Mutant: the latch is reset before execute_move, so also when it raises
HandleManualMoveResetsOnRaise(h, mn, sug, drawn, lt, move) ==
    LET drawn1 == IF sug # move THEN FALSE ELSE drawn
        draw == show_arrow /\ ~drawn1
        q == [Quiet(h, mn, move, drawn1, lt) EXCEPT
                 !.draws = IF draw THEN 1 ELSE 0,
                 !.drawn = drawn1 \/ draw]
    IN  (IF draw
         THEN {[q EXCEPT !.raised = TRUE, !.draws = 0, !.drawn = drawn1]}
         ELSE {})
        \cup (IF lt
              THEN {IF ex.raised
                    THEN [q EXCEPT !.raised = TRUE, !.latch = FALSE]
                    ELSE [q EXCEPT !.board = Append(h, move),
                                   !.move_number = mn + 1,
                                   !.latch = FALSE,
                                   !.submits = 1,
                             !.updates = 1,
                                   !.writes = ex.writes,
                                   !.sug = "none",
                                   !.drawn = FALSE] : ex \in ExecuteMove(move)}
              ELSE {q})

HandleManualMove(h, mn, sug, drawn, lt, move) ==
    LET drawn1 == IF sug # move THEN FALSE ELSE drawn
        draw == show_arrow /\ ~drawn1
        q == [Quiet(h, mn, move, drawn1, lt) EXCEPT
                 !.draws = IF draw THEN 1 ELSE 0,
                 !.drawn = drawn1 \/ draw]
    IN  (IF draw
         THEN {[q EXCEPT !.raised = TRUE, !.draws = 0, !.drawn = drawn1]}
         ELSE {})
        \cup (IF lt
              THEN {IF ex.raised
                    THEN [q EXCEPT !.raised = TRUE]
                    ELSE [q EXCEPT !.board = Append(h, move),
                                   !.move_number = mn + 1,
                                   !.latch = FALSE,
                                   !.submits = 1,
                             !.updates = 1,
                                   !.writes = ex.writes,
                                   !.sug = "none",
                                   !.drawn = FALSE] : ex \in ExecuteMove(move)}
              ELSE {q})

\* Mutant: the engine is asked without looking at the slot first
HandleOurTurnAsksFirst(h, mn, ch, sug, drawn, lt) ==
    LET q == Quiet(h, mn, sug, drawn, lt)
    IN  {[q EXCEPT !.raised = TRUE, !.asked = 1]}
        \cup UNION {
            {[m EXCEPT !.asked = 1, !.move = eng] :
                m \in IF autoplay
                      THEN ExecuteAutoMove(h, mn, sug, drawn, lt, eng)
                      ELSE HandleManualMove(h, mn, sug, drawn, lt, eng)}
            : eng \in LegalMoves(h)}

HandleOurTurn(h, mn, ch, sug, drawn, lt) ==
    LET q == Quiet(h, mn, sug, drawn, lt)
        move_text == CheckForMove(ch, mn)
        v == ValidateAndPushMove(h, move_text)
    IN  IF move_text # "none"
        THEN {[q EXCEPT !.raised = TRUE, !.slot = move_text],
              IF v.ok
              THEN [q EXCEPT !.board = v.board, !.move_number = mn + 1,
                             !.slot = move_text, !.vp = "ok"]
              ELSE [q EXCEPT !.slot = move_text, !.vp = "rejected",
                             !.diag = v.diag]}
        ELSE {[q EXCEPT !.raised = TRUE, !.asked = 1]}
             \cup UNION {
                 {[m EXCEPT !.asked = 1, !.move = eng] :
                     m \in IF autoplay
                           THEN ExecuteAutoMove(h, mn, sug, drawn, lt, eng)
                           ELSE HandleManualMove(h, mn, sug, drawn, lt, eng)}
                 : eng \in LegalMoves(h)}

\* Mutant: a rejected text is counted as a move too
HandleOpponentTurnCountsRejected(h, mn, ch, sug, drawn, lt) ==
    LET q == Quiet(h, mn, sug, drawn, lt)
        move_text == CheckForMove(ch, mn)
        v == ValidateAndPushMove(h, move_text)
    IN  {[q EXCEPT !.raised = TRUE],
         IF move_text # "none"
         THEN IF v.ok
              THEN [q EXCEPT !.board = v.board, !.move_number = mn + 1,
                             !.slot = move_text, !.vp = "ok",
                             !.updates = 1]
              ELSE [q EXCEPT !.slot = move_text, !.vp = "rejected",
                             !.move_number = mn + 1,
                             !.diag = v.diag]
         ELSE q}

HandleOpponentTurn(h, mn, ch, sug, drawn, lt) ==
    LET q == Quiet(h, mn, sug, drawn, lt)
        move_text == CheckForMove(ch, mn)
        v == ValidateAndPushMove(h, move_text)
    IN  {[q EXCEPT !.raised = TRUE],
         IF move_text # "none"
         THEN IF v.ok
              THEN [q EXCEPT !.board = v.board, !.move_number = mn + 1,
                             !.slot = move_text, !.vp = "ok",
                             !.updates = 1]
              ELSE [q EXCEPT !.slot = move_text, !.vp = "rejected",
                             !.diag = v.diag]
         ELSE q}

----------------------------------------------------------------------------
(* The state machine *)

\* The record of a step that did nothing
NoStep ==
    [kind |-> "init", turn |-> "none", iface |-> "none",
     valid |-> TRUE, raised |-> FALSE, slot |-> "none", vp |-> "none",
     asked |-> 0, move |-> "none", submits |-> 0, writes |-> <<>>,
     draws |-> 0, diag |-> 0, n |-> 0, reads |-> 0, mn0 |-> 0, h0 |-> <<>>,
     health |-> "none", by |-> "none"]

Env == [NoStep EXCEPT !.kind = "env"]

\* The program in console mode: self.gui is None, nothing is put in a queue
Init ==
    /\ pc = "start"
    /\ board = <<>>
    /\ move_number = 1
    /\ our_color = "W"
    /\ consecutive_errors = 0
    /\ current_suggestion = "none"
    /\ arrow_drawn = FALSE
    /\ make_move = FALSE
    /\ autoplay \in BOOLEAN
    /\ show_arrow \in BOOLEAN
    /\ channel \in Channels
    /\ game_over = FALSE
    /\ pressed = FALSE
    /\ last = NoStep
    /\ gui_queue = <<>>
    /\ board_state = <<>>
    /\ is_running = FALSE
    /\ gui_our_color = "white"
    /\ strategies = <<>>
    /\ moves = <<>>
    /\ current_move_number = 0
    /\ interface = <<>>
    /\ config_file = FileFor(autoplay, show_arrow)

\* The same construction, before any move list the page can show
InitSync ==
    /\ pc = "start"
    /\ board = <<>>
    /\ move_number = 1
    /\ our_color = "W"
    /\ consecutive_errors = 0
    /\ current_suggestion = "none"
    /\ arrow_drawn = FALSE
    /\ make_move = FALSE
    /\ autoplay \in BOOLEAN
    /\ show_arrow \in BOOLEAN
    /\ channel \in SyncChannels
    /\ game_over = FALSE
    /\ pressed = FALSE
    /\ last = NoStep
    /\ gui_queue = <<>>
    /\ board_state = <<>>
    /\ is_running = FALSE
    /\ gui_our_color = "white"
    /\ strategies = <<>>
    /\ moves = <<>>
    /\ current_move_number = 0
    /\ interface = <<>>
    /\ config_file = FileFor(autoplay, show_arrow)

\* The same, with the move lists longer than the safety limit added
InitSyncLong ==
    /\ pc = "start"
    /\ board = <<>>
    /\ move_number = 1
    /\ our_color = "W"
    /\ consecutive_errors = 0
    /\ current_suggestion = "none"
    /\ arrow_drawn = FALSE
    /\ make_move = FALSE
    /\ autoplay \in BOOLEAN
    /\ show_arrow \in BOOLEAN
    /\ channel \in SyncChannels \cup LongChannels
    /\ game_over = FALSE
    /\ pressed = FALSE
    /\ last = NoStep
    /\ gui_queue = <<>>
    /\ board_state = <<>>
    /\ is_running = FALSE
    /\ gui_our_color = "white"
    /\ strategies = <<>>
    /\ moves = <<>>
    /\ current_move_number = 0
    /\ interface = <<>>
    /\ config_file = FileFor(autoplay, show_arrow)

\* Mutant: the next game is awaited on the board of the game that ended
StartNewGameNoReset ==
    /\ pc = "start"
    /\ pc' = "waiting"
    /\ last' = [NoStep EXCEPT !.kind = "start", !.h0 = board]
    /\ UNCHANGED <<board, move_number, our_color, consecutive_errors,
                   current_suggestion, arrow_drawn, make_move, autoplay,
                   show_arrow, channel, game_over, pressed>>
    /\ UNCHANGED <<guivars, partvars>>

\* start_new_game: the board is reset, then the interface is awaited
StartNewGame ==
    /\ pc = "start"
    /\ board' = <<>>
    /\ pc' = "waiting"
    /\ last' = [NoStep EXCEPT !.kind = "start", !.h0 = board]
    /\ UNCHANGED <<move_number, our_color, consecutive_errors,
                   current_suggestion, arrow_drawn, make_move, autoplay,
                   show_arrow, channel, game_over, pressed>>
    /\ UNCHANGED <<guivars, partvars>>

\* Mutant: one more attempt than max_attempts
RECURSIVE WaitLoopOneMore(_)
WaitLoopOneMore(attempt) ==
    {[ready |-> TRUE, waits |-> attempt + 1, raised |-> FALSE]}
    \cup (IF attempt < max_attempts
          THEN WaitLoopOneMore(attempt + 1)
               \cup {[ready |-> FALSE, waits |-> attempt + 1,
                      raised |-> TRUE]}
          ELSE {[ready |-> FALSE, waits |-> attempt + 1, raised |-> FALSE],
                [ready |-> FALSE, waits |-> attempt + 1, raised |-> TRUE]})

\* The attempts of start_new_game from `attempt` on (counted from 0): the
\* interface is ready; or it is not, and the next attempt follows unless
\* this was the last; or wait_for_game_ready raises, and the next attempt
\* follows if this was not the last and the browser recovery succeeds.
\* waits counts the calls made, raised tells that the last one raised.
RECURSIVE WaitLoop(_)
WaitLoop(attempt) ==
    {[ready |-> TRUE, waits |-> attempt + 1, raised |-> FALSE]}
    \cup (IF attempt < max_attempts - 1
          THEN WaitLoop(attempt + 1)
               \cup {[ready |-> FALSE, waits |-> attempt + 1,
                      raised |-> TRUE]}
          ELSE {[ready |-> FALSE, waits |-> attempt + 1, raised |-> FALSE],
                [ready |-> FALSE, waits |-> attempt + 1, raised |-> TRUE]})

\* The wait for the interface once the follow-up is gone, then the colour,
\* which the game thread writes into the window itself (set_our_color)
WaitForGameReady ==
    /\ pc = "waiting"
    /\ ~game_over
    /\ \E w \in WaitLoop(0), color \in {"W", "B"} :
          /\ last' = [NoStep EXCEPT !.kind = "ready", !.reads = w.waits,
                                    !.raised = w.raised]
          /\ IF w.ready
             THEN /\ pc' = "sync"
                  /\ our_color' = color
                  /\ gui_our_color' = IF is_running
                                      THEN (IF color = "W" THEN "white"
                                                           ELSE "black")
                                      ELSE gui_our_color
             ELSE /\ pc' = "stopped"
                  /\ our_color' = our_color
                  /\ gui_our_color' = gui_our_color
    /\ UNCHANGED <<board, move_number, consecutive_errors,
                   current_suggestion, arrow_drawn, make_move, autoplay,
                   show_arrow, channel, game_over, pressed>>
    /\ UNCHANGED <<gui_queue, board_state, is_running>>
    /\ UNCHANGED partvars

\* update_board_state puts the board object itself in the message; `at` is
\* history: the position the object held when the message was put, and
\* `made` counts the move_made messages add_move puts right behind it
Message(h, made) == [type |-> "board_update", at |-> h, made |-> made]

\* play_game up to the loop: the synchronization, then the GUI is told
PlayGameSync ==
    /\ pc = "sync"
    /\ is_running => Len(gui_queue) < MaxQueue
    /\ LET r == GetPreviousMoves(channel, board)
       IN  /\ r.done
           /\ board' = r.board
           /\ move_number' = r.n
           /\ last' = [NoStep EXCEPT !.kind = "sync", !.n = r.n,
                                     !.diag = r.diag, !.reads = r.reads]
           /\ gui_queue' = IF is_running
                            THEN Append(gui_queue, Message(r.board, 0))
                            ELSE gui_queue
    /\ consecutive_errors' = 0
    /\ pc' = "playing"
    /\ UNCHANGED <<our_color, current_suggestion, arrow_drawn, make_move,
                   autoplay, show_arrow, channel, game_over, pressed,
                   board_state, is_running, gui_our_color>>
    /\ UNCHANGED partvars

\* The loop condition finds the game over
LoopExit ==
    /\ pc = "playing"
    /\ game_over
    /\ pc' = "completed"
    /\ move_number' = 1
    /\ consecutive_errors' = 0
    /\ last' = [NoStep EXCEPT !.kind = "exit"]
    /\ UNCHANGED <<board, our_color,
                   current_suggestion, arrow_drawn, make_move, autoplay,
                   show_arrow, channel, game_over, pressed>>
    /\ UNCHANGED <<guivars, partvars>>

\* After the loop: the result is logged and start_new_game is called
GameCompletion ==
    /\ pc = "completed"
    /\ pc' = "start"
    /\ consecutive_errors' = 0
    /\ last' = [NoStep EXCEPT !.kind = "completion"]
    /\ UNCHANGED <<board, move_number, our_color,
                   current_suggestion, arrow_drawn, make_move, autoplay,
                   show_arrow, channel, game_over, pressed>>
    /\ UNCHANGED <<guivars, partvars>>

\* A tick whose validation fails with a healthy browser: refresh, continue
TickRefresh ==
    /\ pc = "playing"
    /\ ~game_over
    /\ ~ValidateGameState(board, move_number)
    /\ last' = [NoStep EXCEPT !.kind = "tick", !.valid = FALSE, !.diag = 1,
                              !.mn0 = move_number, !.h0 = board,
                              !.health = "ok"]
    /\ UNCHANGED <<pc, board, move_number, our_color, consecutive_errors,
                   current_suggestion, arrow_drawn, make_move, autoplay,
                   show_arrow, channel, game_over, pressed>>
    /\ UNCHANGED <<guivars, partvars>>

\* A tick whose validation fails, the browser unhealthy and not recovered
TickAbandon ==
    /\ pc = "playing"
    /\ ~game_over
    /\ ~ValidateGameState(board, move_number)
    /\ pc' = "completed"
    /\ move_number' = 1
    /\ consecutive_errors' = 0
    /\ last' = [NoStep EXCEPT !.kind = "tick", !.valid = FALSE, !.diag = 1,
                              !.mn0 = move_number, !.h0 = board,
                              !.health = "failed"]
    /\ UNCHANGED <<board, our_color,
                   current_suggestion, arrow_drawn, make_move, autoplay,
                   show_arrow, channel, game_over, pressed>>
    /\ UNCHANGED <<guivars, partvars>>

\* The except clause of the loop: TRUE when the loop goes on
LoopContinues(errors, recovered) ==
    IF errors >= max_consecutive_errors
    THEN FALSE
    ELSE recovered

\* A tick that reaches the turn arbitration: the state is valid, or the
\* browser was unhealthy and recovered.  Past the threshold the loop is left
\* with no health probe; below it, recovered is the outcome of the probe and
\* of the recovery it may start.
TickRun ==
    /\ pc = "playing"
    /\ ~game_over
    /\ \E interface_turn \in {"none", "yes", "no"} :
       \E our_turn \in {IsOurTurn(interface_turn, board, our_color)} :
       \E r \in IF our_turn
                THEN HandleOurTurn(board, move_number, channel,
                                   current_suggestion, arrow_drawn, make_move)
                ELSE HandleOpponentTurn(board, move_number, channel,
                                        current_suggestion, arrow_drawn,
                                        make_move) :
       \E errors \in {consecutive_errors + 1} :
       \E recovered \in IF r.raised /\ errors < max_consecutive_errors
                        THEN BOOLEAN ELSE {TRUE} :
       \E goes_on \in {~r.raised \/ LoopContinues(errors, recovered)} :
       \E told \in {is_running /\ ~r.raised /\ r.updates = 1} :
          /\ told => Len(gui_queue) < MaxQueue
          /\ pc' = IF goes_on THEN "playing" ELSE "completed"
          /\ board' = IF r.raised THEN board ELSE r.board
          /\ move_number' = IF ~goes_on THEN 1
                             ELSE IF r.raised THEN move_number
                             ELSE r.move_number
          /\ current_suggestion' = r.sug
          /\ arrow_drawn' = r.drawn
          /\ make_move' = r.latch
          /\ pressed' = IF ~autoplay /\ r.submits = 1 THEN FALSE ELSE pressed
          /\ consecutive_errors' =
                IF r.raised /\ (goes_on \/ errors >= max_consecutive_errors)
                THEN errors ELSE 0
          /\ gui_queue' = IF told
                          THEN Append(gui_queue, Message(r.board, 1))
                          ELSE gui_queue
          /\ last' = [NoStep EXCEPT
                        !.kind = "tick",
                        !.mn0 = move_number,
                        !.h0 = board,
                        !.turn = IF our_turn THEN "ours" ELSE "theirs",
                        !.iface = interface_turn,
                        !.valid = ValidateGameState(board, move_number),
                        !.raised = r.raised,
                        !.slot = r.slot,
                        !.vp = r.vp,
                        !.asked = r.asked,
                        !.move = r.move,
                        !.submits = r.submits,
                        !.writes = r.writes,
                        !.draws = r.draws,
                        !.health =
                            IF r.raised /\ errors < max_consecutive_errors
                            THEN IF recovered THEN "ok" ELSE "failed"
                            ELSE IF ValidateGameState(board, move_number)
                            THEN "none" ELSE "ok",
                        !.diag = (IF ValidateGameState(board, move_number)
                                  THEN 0 ELSE 1)
                                 + r.diag
                                 + (IF r.raised
                                       /\ errors >= max_consecutive_errors
                                    THEN 1 ELSE 0)]
    /\ UNCHANGED <<our_color, autoplay, show_arrow, channel, game_over,
                   board_state, is_running, gui_our_color>>
    /\ UNCHANGED partvars

Tick == TickRefresh \/ TickAbandon \/ TickRun

\* The keyboard listener: the move key is pressed
KeyPress ==
    /\ make_move' = TRUE
    /\ pressed' = TRUE
    /\ last' = Env
    /\ UNCHANGED <<pc, board, move_number, our_color, consecutive_errors,
                   current_suggestion, arrow_drawn, autoplay, show_arrow,
                   channel, game_over>>
    /\ UNCHANGED <<guivars, partvars>>

\* The remote game: a text appears in the next slot of the move list
SlotAppears ==
    /\ ~game_over
    /\ Len(channel) < MaxPly
    /\ \E t \in Texts : channel' = Append(channel, t)
    /\ last' = Env
    /\ UNCHANGED <<pc, board, move_number, our_color, consecutive_errors,
                   current_suggestion, arrow_drawn, make_move, autoplay,
                   show_arrow, game_over, pressed>>
    /\ UNCHANGED <<guivars, partvars>>

\* The remote game ends: the follow-up element appears
GameEnds ==
    /\ pc = "playing"
    /\ ~game_over
    /\ game_over' = TRUE
    /\ last' = Env
    /\ UNCHANGED <<pc, board, move_number, our_color, consecutive_errors,
                   current_suggestion, arrow_drawn, make_move, autoplay,
                   show_arrow, channel, pressed>>
    /\ UNCHANGED <<guivars, partvars>>

\* A new game is on the page: the follow-up is gone, the move list is new
NewGameOnPage ==
    /\ pc = "waiting"
    /\ game_over
    /\ game_over' = FALSE
    /\ channel' \in Channels
    /\ last' = Env
    /\ UNCHANGED <<pc, board, move_number, our_color, consecutive_errors,
                   current_suggestion, arrow_drawn, make_move, autoplay,
                   show_arrow, pressed>>
    /\ UNCHANGED <<guivars, partvars>>

\* Mutant: handling a message puts the position of the message on the board
ProcessQueueWritesBoard ==
    /\ is_running
    /\ gui_queue # <<>>
    /\ board' = Head(gui_queue).at
    /\ board_state' = Head(gui_queue).at
    /\ gui_queue' = Tail(gui_queue)
    /\ last' = [NoStep EXCEPT !.kind = "gui", !.h0 = Head(gui_queue).at]
    /\ UNCHANGED <<pc, move_number, our_color, consecutive_errors,
                   current_suggestion, arrow_drawn, make_move, autoplay,
                   show_arrow, channel, game_over, pressed, is_running,
                   gui_our_color>>
    /\ UNCHANGED partvars

\* The presentation thread takes one message: _update_board copies the board
\* object the message holds, as it is when the message is handled
ProcessQueue ==
    /\ is_running
    /\ gui_queue # <<>>
    /\ board_state' = board
    /\ gui_queue' = Tail(gui_queue)
    /\ last' = [NoStep EXCEPT !.kind = "gui", !.h0 = Head(gui_queue).at]
    /\ UNCHANGED <<pc, board, move_number, our_color, consecutive_errors,
                   current_suggestion, arrow_drawn, make_move, autoplay,
                   show_arrow, channel, game_over, pressed, is_running,
                   gui_our_color>>
    /\ UNCHANGED partvars

\* The window is closed: _on_closing, after which start() runs cleanup().
\* The window is destroyed and shows no perspective any more: the field is
\* put back to its initial value
OnClosing ==
    /\ is_running
    /\ is_running' = FALSE
    /\ gui_our_color' = "white"
    /\ last' = [NoStep EXCEPT !.kind = "closing"]
    /\ UNCHANGED <<pc, board, move_number, our_color, consecutive_errors,
                   current_suggestion, arrow_drawn, make_move, autoplay,
                   show_arrow, channel, game_over, pressed, gui_queue,
                   board_state>>
    /\ UNCHANGED partvars

Next ==
    \/ StartNewGame
    \/ WaitForGameReady
    \/ PlayGameSync
    \/ LoopExit
    \/ GameCompletion
    \/ Tick
    \/ KeyPress
    \/ SlotAppears
    \/ GameEnds
    \/ NewGameOnPage

Spec == Init /\ [][Next]_vars

\* The program with the window: the game loop runs in a thread of its own,
\* the presentation thread handles the queue and may close the window
InitGui ==
    /\ pc = "start"
    /\ board = <<>>
    /\ move_number = 1
    /\ our_color = "W"
    /\ consecutive_errors = 0
    /\ current_suggestion = "none"
    /\ arrow_drawn = FALSE
    /\ make_move = FALSE
    /\ autoplay = TRUE
    /\ show_arrow = FALSE
    /\ channel = <<>>
    /\ game_over = FALSE
    /\ pressed = FALSE
    /\ last = NoStep
    /\ gui_queue = <<>>
    /\ board_state = <<>>
    /\ is_running = TRUE
    /\ gui_our_color = "white"
    /\ strategies = <<>>
    /\ moves = <<>>
    /\ current_move_number = 0
    /\ interface = <<>>
    /\ config_file = FileFor(autoplay, show_arrow)

NextGui ==
    \/ StartNewGame
    \/ WaitForGameReady
    \/ PlayGameSync
    \/ LoopExit
    \/ GameCompletion
    \/ Tick
    \/ KeyPress
    \/ SlotAppears
    \/ GameEnds
    \/ ProcessQueue
    \/ OnClosing

SpecGui == InitGui /\ [][NextGui]_vars

\* The synchronization alone, on every move list
NextSync ==
    \/ StartNewGame
    \/ WaitForGameReady
    \/ PlayGameSync

SpecSync == InitSync /\ [][NextSync]_vars

SpecSyncLong == InitSyncLong /\ [][NextSync]_vars

\* One read of a slot, on every page: check_for_move is called once
InitRead ==
    /\ pc = "reading"
    /\ board = <<>>
    /\ move_number = 1
    /\ our_color = "W"
    /\ consecutive_errors = 0
    /\ current_suggestion = "none"
    /\ arrow_drawn = FALSE
    /\ make_move = FALSE
    /\ autoplay = TRUE
    /\ show_arrow = FALSE
    /\ channel = <<>>
    /\ game_over = FALSE
    /\ pressed = FALSE
    /\ last = NoStep
    /\ gui_queue = <<>>
    /\ board_state = <<>>
    /\ is_running = FALSE
    /\ gui_our_color = "white"
    /\ strategies \in Pages
    /\ moves = <<>>
    /\ current_move_number = 0
    /\ interface = <<>>
    /\ config_file = FileFor(autoplay, show_arrow)

ReadSlot ==
    /\ pc = "reading"
    /\ \E r \in CheckForMoveOn(strategies) :
          last' = [NoStep EXCEPT !.kind = "read", !.slot = r.text,
                                 !.raised = r.raised, !.by = r.by,
                                 !.reads = r.tried]
    /\ pc' = "read"
    /\ UNCHANGED <<board, move_number, our_color, consecutive_errors,
                   current_suggestion, arrow_drawn, make_move, autoplay,
                   show_arrow, channel, game_over, pressed>>
    /\ UNCHANGED <<guivars, partvars>>

NextRead == ReadSlot

SpecRead == InitRead /\ [][NextRead]_vars

----------------------------------------------------------------------------
(* MoveHistoryWidget *)

\* The chess.Move objects given to the widget
HistoryMoves ==
    {[from_square |-> "e2", to_square |-> "e4"],
     [from_square |-> "e7", to_square |-> "e5"],
     [from_square |-> "g1", to_square |-> "f3"]}

\* str(move): the UCI text of a move
Str(move) == move.from_square \o move.to_square

\* Mutant: a move of Black always starts a row of its own
AddMoveBlackAppends(ms, move, ply, is_white) ==
    LET move_str == Str(move)
        pair_number == (ply + 1) \div 2
    IN  IF is_white /\ pair_number <= Len(ms)
        THEN [ms EXCEPT ![pair_number] =
                 [pair_number |-> pair_number, white |-> move_str,
                  black |-> ms[pair_number].black]]
        ELSE Append(ms, [pair_number |-> pair_number,
                         white |-> IF is_white THEN move_str ELSE "",
                         black |-> IF is_white THEN "" ELSE move_str])

\* add_move: the rows after the move of ply is added
AddMove(ms, move, ply, is_white) ==
    LET move_str == Str(move)
        pair_number == (ply + 1) \div 2
    IN  IF is_white
        THEN IF pair_number > Len(ms)
             THEN Append(ms, [pair_number |-> pair_number,
                              white |-> move_str, black |-> ""])
             ELSE [ms EXCEPT ![pair_number] =
                      [pair_number |-> pair_number, white |-> move_str,
                       black |-> ms[pair_number].black]]
        ELSE IF pair_number > Len(ms)
             THEN Append(ms, [pair_number |-> pair_number,
                              white |-> "", black |-> move_str])
             ELSE [ms EXCEPT ![pair_number] =
                      [pair_number |-> pair_number,
                       white |-> ms[pair_number].white,
                       black |-> move_str]]

GetMoveCount(ms) ==
    Cardinality({k \in 1..Len(ms) : ms[k].white # ""})
    + Cardinality({k \in 1..Len(ms) : ms[k].black # ""})

\* The widget alone, after _create_widgets
InitHistory ==
    /\ pc = "history"
    /\ board = <<>>
    /\ move_number = 1
    /\ our_color = "W"
    /\ consecutive_errors = 0
    /\ current_suggestion = "none"
    /\ arrow_drawn = FALSE
    /\ make_move = FALSE
    /\ autoplay = TRUE
    /\ show_arrow = FALSE
    /\ channel = <<>>
    /\ game_over = FALSE
    /\ pressed = FALSE
    /\ last = NoStep
    /\ gui_queue = <<>>
    /\ board_state = <<>>
    /\ is_running = FALSE
    /\ gui_our_color = "white"
    /\ strategies = <<>>
    /\ moves = <<>>
    /\ current_move_number = 0
    /\ interface = <<>>
    /\ config_file = FileFor(autoplay, show_arrow)

\* The caller adds the move of the next ply, White's on the odd plies;
\* last.h0 keeps the texts of the moves given since the history was cleared
AddMoveStep ==
    /\ pc = "history"
    /\ current_move_number < MaxHistory
    /\ \E move \in HistoryMoves :
       \E ply \in {current_move_number + 1} :
          /\ moves' = AddMove(moves, move, ply, ply % 2 = 1)
          /\ current_move_number' = ply
          /\ last' = [NoStep EXCEPT !.kind = "add", !.n = ply,
                                    !.move = Str(move),
                                    !.h0 = Append(last.h0, Str(move))]
    /\ UNCHANGED <<pc, board, move_number, our_color, consecutive_errors,
                   current_suggestion, arrow_drawn, make_move, autoplay,
                   show_arrow, channel, game_over, pressed, strategies,
                   interface, config_file>>
    /\ UNCHANGED guivars

ClearHistory ==
    /\ pc = "history"
    /\ moves # <<>>
    /\ moves' = <<>>
    /\ current_move_number' = 0
    /\ last' = [NoStep EXCEPT !.kind = "clear"]
    /\ UNCHANGED <<pc, board, move_number, our_color, consecutive_errors,
                   current_suggestion, arrow_drawn, make_move, autoplay,
                   show_arrow, channel, game_over, pressed, strategies,
                   interface, config_file>>
    /\ UNCHANGED guivars

NextHistory ==
    \/ AddMoveStep
    \/ ClearHistory

SpecHistory == InitHistory /\ [][NextHistory]_vars

----------------------------------------------------------------------------
(* Turn detection *)

\* One arbitration, on every page, in a game of either colour, before and
\* after White's first move, with and without a suggestion on display
InitTurn ==
    /\ pc = "arbitrating"
    /\ board \in {<<>>, <<"e2e4">>}
    /\ move_number = Len(board) + 1
    /\ our_color \in {"W", "B"}
    /\ consecutive_errors = 0
    /\ current_suggestion \in {"none", "g1f3"}
    /\ arrow_drawn = (current_suggestion # "none")
    /\ make_move = FALSE
    /\ autoplay = FALSE
    /\ show_arrow = TRUE
    /\ channel = <<>>
    /\ game_over = FALSE
    /\ pressed = FALSE
    /\ last = NoStep
    /\ gui_queue = <<>>
    /\ board_state = <<>>
    /\ is_running = FALSE
    /\ gui_our_color = "white"
    /\ strategies = <<>>
    /\ moves = <<>>
    /\ current_move_number = 0
    /\ interface \in InterfacePages
    /\ config_file = FileFor(autoplay, show_arrow)

IsOurTurnStep ==
    /\ pc = "arbitrating"
    /\ \E i \in {IsOurTurnViaInterface(interface)} :
       \E r \in {IsOurTurnCall(i.turn, board, move_number, our_color,
                               current_suggestion, arrow_drawn)} :
          /\ pc' = IF r.raised THEN "raised" ELSE "arbitrated"
          /\ board' = r.board
          /\ move_number' = r.move_number
          /\ current_suggestion' = r.sug
          /\ arrow_drawn' = r.drawn
          /\ last' = [NoStep EXCEPT
                        !.kind = "turn",
                        !.iface = i.turn,
                        !.by = i.by,
                        !.turn = IF r.our_turn THEN "ours" ELSE "theirs",
                        !.raised = r.raised,
                        !.diag = IF r.logged THEN 1 ELSE 0,
                        !.mn0 = move_number,
                        !.h0 = board]
    /\ UNCHANGED <<our_color, consecutive_errors, make_move, autoplay,
                   show_arrow, channel, game_over, pressed>>
    /\ UNCHANGED <<guivars, partvars>>

NextTurn == IsOurTurnStep

SpecTurn == InitTurn /\ [][NextTurn]_vars

\* The construction of the configuration manager, on every config.ini
InitConfig ==
    /\ pc = "constructing"
    /\ board = <<>>
    /\ move_number = 1
    /\ our_color = "W"
    /\ consecutive_errors = 0
    /\ current_suggestion = "none"
    /\ arrow_drawn = FALSE
    /\ make_move = FALSE
    /\ autoplay = FALSE
    /\ show_arrow = FALSE
    /\ channel = <<>>
    /\ game_over = FALSE
    /\ pressed = FALSE
    /\ last = NoStep
    /\ gui_queue = <<>>
    /\ board_state = <<>>
    /\ is_running = FALSE
    /\ gui_our_color = "white"
    /\ strategies = <<>>
    /\ moves = <<>>
    /\ current_move_number = 0
    /\ interface = <<>>
    /\ config_file \in ConfigFiles

\* ConfigManager() loads the file; the switches are what the properties
\* answer from then on
ConstructConfig ==
    /\ pc = "constructing"
    /\ pc' = "start"
    /\ \E config \in {LoadConfig(config_file)} :
          /\ autoplay' = IsAutoplayEnabled(config)
          /\ show_arrow' = ShowArrow(config)
    /\ config_file' = WrittenFile(config_file)
    /\ last' = [NoStep EXCEPT !.kind = "config"]
    /\ UNCHANGED <<board, move_number, our_color, consecutive_errors,
                   current_suggestion, arrow_drawn, make_move, channel,
                   game_over, pressed>>
    /\ UNCHANGED <<guivars, strategies, moves, current_move_number, interface>>

NextConfig == ConstructConfig

SpecConfig == InitConfig /\ [][NextConfig]_vars

----------------------------------------------------------------------------
(* Claims C1 to C10 *)

\* C1: at the start of every iteration of the Playing loop, move_number - 1
\* equals the length of the board's move stack, whatever the move list holds.
C1_PlyCounterMatchesHistory ==
    pc = "playing" => move_number - 1 = Len(board)

\* C2: in a tick that hands an observed text to validate_and_push_move, a
\* text that does not parse to a legal move in the position is rejected and
\* the move stack stays as it was; the stack changes only by the one legal
\* move the text denotes.
C2_InvalidTextLeavesBoard ==
    (last.kind = "tick" /\ last.slot # "none" /\ ~last.raised) =>
        LET p == ParseSan(last.h0, last.slot)
        IN  /\ last.vp \in {"ok", "rejected"}
            /\ p = "error" => (last.vp = "rejected" /\ board = last.h0)
            /\ last.vp = "rejected" => board = last.h0
            /\ last.vp = "ok" => (p # "error" /\ board = Append(last.h0, p))

C2_Witness ==
    /\ last.kind = "tick"
    /\ last.slot = "Zz9"
    /\ last.vp = "rejected"
    /\ Len(last.h0) = 1
    /\ board = last.h0

\* The slot of ply n holds a move text: an element with text, not "..."
SlotHoldsText(ch, n) ==
    n \in 1..Len(ch) /\ ch[n] # "" /\ ch[n] # "..."

\* C3: in a tick arbitrated as our turn at ply N, if the slot of ply N holds
\* a text, the engine is not asked and nothing is submitted in that tick;
\* and when the tick completes and the text is a legal move, the move is on
\* the board and move_number is N + 1.
C3_ObservedSlotBeforeEngine ==
    (last.kind = "tick" /\ last.turn = "ours"
        /\ SlotHoldsText(channel, last.mn0)) =>
        /\ last.asked = 0
        /\ last.submits = 0
        /\ last.writes = <<>>
        /\ (~last.raised /\ ParseSan(last.h0, channel[last.mn0]) # "error") =>
              /\ board = Append(last.h0, ParseSan(last.h0, channel[last.mn0]))
              /\ move_number = last.mn0 + 1

C3_Witness ==
    /\ last.kind = "tick"
    /\ last.turn = "ours"
    /\ last.mn0 = 1
    /\ Len(channel) >= 1
    /\ channel[1] = "e4"
    /\ board = <<"e2e4">>
    /\ move_number = 2
    /\ last.asked = 0

\* The board-derived signal: the side to move is our colour
BoardSaysOurs(h, color) == (Len(h) % 2 = 0) = (color = "W")

\* C4: the arbitrated turn is the interface signal whenever the interface
\* gives one, whatever the board says, and the board-derived signal exactly
\* when the interface gives none.
C4_InterfaceSignalWins ==
    (last.kind = "tick" /\ last.turn # "none") =>
        /\ last.iface = "yes" => last.turn = "ours"
        /\ last.iface = "no" => last.turn = "theirs"
        /\ last.iface = "none" =>
              (last.turn = "ours") = BoardSaysOurs(last.h0, our_color)

C4_Witness ==
    /\ last.kind = "tick"
    /\ last.iface = "yes"
    /\ ~BoardSaysOurs(last.h0, our_color)
    /\ last.turn = "ours"

\* C5: in Gated mode, a tick that handles a suggestion while the latch is
\* not asserted leaves the board, move_number and the latch alone and
\* submits nothing; it draws the arrow at most once, recording it as drawn
\* for that suggestion, and draws nothing when the same suggestion's arrow
\* is already recorded as drawn.
C5_GatedHandlingIsIdempotent ==
    [][(last'.kind = "tick" /\ ~autoplay /\ last'.turn = "ours"
          /\ last'.move # "none" /\ ~make_move) =>
        /\ board' = board
        /\ pc' = "playing" => move_number' = move_number
        /\ ~make_move'
        /\ last'.submits = 0
        /\ last'.writes = <<>>
        /\ last'.draws <= 1
        /\ last'.draws = 1 =>
              (arrow_drawn' /\ current_suggestion' = last'.move)
        /\ (arrow_drawn /\ current_suggestion = last'.move) =>
              (last'.draws = 0 /\ arrow_drawn'
                 /\ current_suggestion' = current_suggestion)]_vars

C5_Witness ==
    /\ last.kind = "tick"
    /\ ~autoplay
    /\ show_arrow
    /\ last.turn = "ours"
    /\ last.move = current_suggestion
    /\ current_suggestion # "none"
    /\ arrow_drawn
    /\ last.draws = 0
    /\ ~make_move
    /\ board = last.h0

\* The moves the texts of slots 1..k denote when each is legal in turn
RECURSIVE Replay(_, _)
Replay(ch, k) ==
    IF k = 0
    THEN [ok |-> TRUE, h |-> <<>>]
    ELSE LET r == Replay(ch, k - 1)
         IN  IF r.ok /\ k <= Len(ch) /\ ParseSan(r.h, ch[k]) # "error"
             THEN [ok |-> TRUE, h |-> Append(r.h, ParseSan(r.h, ch[k]))]
             ELSE [ok |-> FALSE, h |-> <<>>]

\* The slot of ply n shows no text: no element, or an element without text
NoText(ch, n) == n > Len(ch) \/ ch[n] = ""

\* C6: when the move list holds legal move texts at plies 1..k and no text at
\* ply k + 1, get_previous_moves on the reset board returns k + 1 and the
\* board holds exactly those k moves in order.
C6_ResyncCorrect ==
    last.kind = "sync" =>
        \A k \in 0..Len(channel) :
            (Replay(channel, k).ok /\ NoText(channel, k + 1)) =>
                (move_number = k + 1 /\ board = Replay(channel, k).h)

C6_Witness ==
    /\ last.kind = "sync"
    /\ channel = <<"e4", "e5", "Nf3">>
    /\ move_number = 4
    /\ board = <<"e2e4", "e7e5", "g1f3">>

\* C7: when plies 1..p-1 hold legal move texts and the text of ply p does
\* not parse to a legal move, get_previous_moves returns p, the board holds
\* exactly the p - 1 moves before it, no ply after p is read, and one
\* diagnostic capture is taken.
C7_StopsAtBadNotation ==
    last.kind = "sync" =>
        \A p \in 1..Len(channel) :
            (Replay(channel, p - 1).ok /\ SlotHoldsText(channel, p)
               /\ ParseSan(Replay(channel, p - 1).h, channel[p]) = "error") =>
                /\ move_number = p
                /\ board = Replay(channel, p - 1).h
                /\ last.reads = p
                /\ last.diag = 1

C7_Witness ==
    /\ last.kind = "sync"
    /\ Len(channel) = 3
    /\ channel[1] = "e4"
    /\ channel[2] = "Zz9"
    /\ channel[3] = "e5"
    /\ move_number = 2
    /\ board = <<"e2e4">>
    /\ last.diag = 1

\* The first ply whose slot is empty or the placeholder
FirstGap(ch) ==
    CHOOSE n \in 1..(Len(ch) + 1) :
        /\ ~SlotHoldsText(ch, n)
        /\ \A i \in 1..(n - 1) : SlotHoldsText(ch, i)

\* C8: the synchronization returns no ply beyond the first slot that is
\* empty or the placeholder, and never a ply beyond a slot whose move it did
\* not apply: the returned ply is one more than the moves on the board.
C8_SyncStopsAtFirstGap ==
    last.kind = "sync" =>
        /\ move_number <= FirstGap(channel)
        /\ move_number - 1 = Len(board)

\* C9: in Gated mode a tick submits only when the latch is asserted and was
\* asserted by a key press since the previous gated submission, and the
\* latch is reset by the end of the submitting tick, before it is read again.
C9_LatchResetAfterSubmission ==
    [][(last'.kind = "tick" /\ ~autoplay /\ last'.submits = 1) =>
        (make_move /\ pressed /\ ~make_move')]_vars

C9_Witness ==
    /\ last.kind = "tick"
    /\ ~autoplay
    /\ last.submits = 1
    /\ Len(last.writes) = 3
    /\ ~make_move
    /\ board = Append(last.h0, last.move)

\* C10: in Autonomous mode as the second player, with the opponent's ply-1
\* move on the board and move_number 2, a tick arbitrated as our turn that
\* finds no slot at ply 2 and completes without an exception asks the engine
\* once, calls the submission once for the engine's move and pushes it:
\* move_number is 3 and the board holds 2 moves.
C10_AutonomousReplyAsSecondPlayer ==
    (last.kind = "tick" /\ autoplay /\ our_color = "B"
        /\ last.mn0 = 2 /\ Len(last.h0) = 1 /\ last.turn = "ours"
        /\ ~SlotHoldsText(channel, 2) /\ ~last.raised) =>
        /\ last.asked = 1
        /\ last.submits = 1
        /\ last.move \in BlackMoves
        /\ \E k \in 0..3 :
              last.writes = SubSeq(<<"RETURN", "CLEAR", last.move>>, 1, k)
        /\ move_number = 3
        /\ board = Append(last.h0, last.move)
        /\ Len(board) = 2

C10_Witness ==
    /\ last.kind = "tick"
    /\ autoplay
    /\ our_color = "B"
    /\ last.turn = "ours"
    /\ last.asked = 1
    /\ last.submits = 1
    /\ last.writes = <<"RETURN", "CLEAR", "e7e5">>
    /\ move_number = 3
    /\ board = <<"e2e4", "e7e5">>
    /\ channel = <<"e4">>

----------------------------------------------------------------------------
(* Claims C11 to C20 *)

\* The threshold of consecutive failing ticks is reached; no probe of the
\* browser's health has been made since
Unreachable == consecutive_errors >= max_consecutive_errors

\* C11: once max_consecutive_errors consecutive ticks have failed, the game
\* thread makes no further call to the page (a tick, the result lookup of the
\* game completion, the wait for the next game, a synchronization) until a
\* health probe has succeeded.
C11_NoChannelCallWhileUnreachable ==
    [][Unreachable =>
          last'.kind \notin {"tick", "completion", "ready", "sync"}]_vars

\* C12: a tick whose validation fails takes a diagnostic capture and re-runs
\* the synchronization, without arbitrating the turn or handling a move in
\* that tick and without leaving the loop.
C12_FailedValidationResynchronizes ==
    (last.kind = "tick" /\ ~last.valid) =>
        /\ last.diag >= 1
        /\ last.reads >= 1
        /\ last.turn = "none"
        /\ pc = "playing"

\* C13: a tick in which the observed text of ply N was rejected is not
\* followed by a tick that hands the same text of the same ply to the same
\* position again.
C13_NoBlindRetry ==
    [][~(/\ last.kind = "tick" /\ last.vp = "rejected"
         /\ last'.kind = "tick" /\ last'.vp = "rejected"
         /\ last'.slot = last.slot
         /\ last'.mn0 = last.mn0
         /\ last'.h0 = last.h0)]_vars

\* C14: a tick in which the browser is found unhealthy and the recovery
\* fails leaves the Playing loop, and a diagnostic capture is taken in it.
C14_FailedRecoveryAbandonsWithCapture ==
    (last.kind = "tick" /\ last.health = "failed") =>
        /\ pc = "completed"
        /\ last.diag >= 1

\* C15: the board is empty whenever a game is awaited or synchronized; the
\* synchronization is the one step that enters the Playing loop, taken from
\* the reset board, and ticks run only inside the loop; when the loop is left
\* the result is reported first, then the board is reset, then the next game
\* is awaited.
C15_LifecycleOrder ==
    [][/\ pc' \in {"waiting", "sync"} => board' = <<>>
       /\ last'.kind = "sync" =>
             (pc = "sync" /\ board = <<>> /\ pc' = "playing")
       /\ (pc' = "playing" /\ pc # "playing") => last'.kind = "sync"
       /\ last'.kind = "tick" => pc = "playing"
       /\ (pc = "playing" /\ pc' # "playing") => pc' = "completed"
       /\ (pc = "completed" /\ pc' # "completed") =>
             (pc' = "start" /\ last'.kind = "completion" /\ board' = board)
       /\ (pc = "start" /\ pc' # "start") =>
             (pc' = "waiting" /\ last'.kind = "start" /\ board' = <<>>)
       /\ (pc = "waiting" /\ pc' # "waiting") =>
             (pc' \in {"sync", "stopped"} /\ ~game_over)]_vars

C15_Witness ==
    /\ last.kind = "start"
    /\ Len(last.h0) = 2
    /\ pc = "waiting"
    /\ board = <<>>
    /\ game_over

\* C16: every tick arbitrates the turn and runs one of the two handlers; in
\* a tick arbitrated as the opponent's turn the engine is not asked, nothing
\* is submitted, and the board is left alone or grows by the move the text of
\* slot move_number denotes, move_number advancing by one.
C16_EveryTickArbitrates ==
    last.kind = "tick" =>
        /\ last.turn \in {"ours", "theirs"}
        /\ last.turn = "theirs" =>
              /\ last.asked = 0
              /\ last.submits = 0
              /\ last.writes = <<>>
              /\ \/ board = last.h0 /\ (pc = "playing" =>
                                          move_number = last.mn0)
                 \/ /\ SlotHoldsText(channel, last.mn0)
                    /\ board = Append(last.h0,
                                      ParseSan(last.h0, channel[last.mn0]))
                    /\ move_number = last.mn0 + 1

\* C17: the writes of a submission are the return keystroke, the clear and
\* the move text, in that order, as far as they were made: the text is never
\* typed unless the return keystroke and the clear were made before it.
C17_WritesInOrder ==
    (last.kind = "tick" /\ last.submits = 1) =>
        /\ \E k \in 0..3 :
              last.writes = SubSeq(<<"RETURN", "CLEAR", last.move>>, 1, k)
        /\ \A i \in 1..Len(last.writes) :
              last.writes[i] = last.move =>
                  /\ i = 3
                  /\ last.writes[1] = "RETURN"
                  /\ last.writes[2] = "CLEAR"

C17_Witness ==
    /\ last.kind = "tick"
    /\ last.submits = 1
    /\ last.move = "g1f3"
    /\ last.writes = <<"RETURN", "CLEAR", "g1f3">>

\* C18: with the window open at the start, no tick is started once the
\* window was closed and the cleanup requested.
C18_NoTickAfterStop ==
    [][~is_running => last'.kind # "tick"]_vars

\* C19: the position displayed after a board_update message is handled is
\* the position the board held when update_board_state was called.
C19_DisplayedIsSnapshot ==
    last.kind = "gui" => board_state = last.h0

\* C20: a step of the presentation thread (a message handled, the window
\* closed), of the keyboard listener or of the page leaves the board and
\* move_number as they are.
C20_SingleWriter ==
    [][last'.kind \in {"gui", "closing", "env"} =>
          (board' = board /\ move_number' = move_number)]_vars

C20_Witness ==
    /\ last.kind = "gui"
    /\ pc = "playing"
    /\ Len(board) = 2
    /\ move_number = 3
    /\ board_state = board
    /\ make_move

----------------------------------------------------------------------------
(* Claims C21 to C30 *)

\* The lookups in the order of the claim, as ranks
Rank(k) ==
    CASE k = "class_name" -> 1
      [] k = "xpath_short" -> 2
      [] k = "xpath_medium" -> 3
      [] k = "xpath_absolute" -> 4

\* No lookup of the page yields a text that is a move
NothingToRead(page) ==
    \A k \in StrategyNames : ~Yields(page[k]) \/ Strip(page[k]) = "..."

\* C21: a read of a slot that every lookup finds absent, empty or holding the
\* placeholder returns None, and a read during which a lookup that was tried
\* raised a channel error, no lookup yielding a move, does not return None
\* as if the slot were not yet present: it raises.
C21_AbsentDistinctFromChannelError ==
    last.kind = "read" =>
        /\ (NothingToRead(strategies) /\ ~last.raised) => last.slot = "none"
        /\ (NothingToRead(strategies)
            /\ \E k \in StrategyNames :
                  strategies[k] = "error" /\ Rank(k) <= last.reads)
           => last.raised

\* C22: a read returns the element of the first lookup, in the order
\* class-name index, shortest path, medium path, absolute path, that yields
\* non-empty text, every lookup before it having been tried; it finds the
\* slot empty only when all four were tried and none yields text.
C22_FirstYieldingStrategyWins ==
    last.kind = "read" =>
        LET yielding == {k \in StrategyNames : Yields(strategies[k])}
        IN  /\ yielding = {} => (last.by = "none" /\ last.reads = 4
                                 /\ last.slot = "none")
            /\ yielding # {} =>
                  /\ last.by \in yielding
                  /\ \A k \in yielding : Rank(last.by) <= Rank(k)
                  /\ last.reads = Rank(last.by)
                  /\ ~last.raised =>
                        last.slot = CheckText(strategies[last.by])

C22_Witness ==
    /\ last.kind = "read"
    /\ strategies["class_name"] = "error"
    /\ strategies["xpath_short"] = " "
    /\ strategies["xpath_medium"] = "e5"
    /\ strategies["xpath_absolute"] = "e4 "
    /\ last.by = "xpath_medium"
    /\ last.slot = "e5"

\* C23: after the moves of plies 1..n were added in order, White's on the odd
\* plies, the history holds ceil(n/2) rows, row k has full-move number k,
\* the move of ply 2k-1 as White's and the move of ply 2k, or nothing, as
\* Black's, and the move count is n.
C23_HistoryRowsPairPlies ==
    last.kind = "add" =>
        LET n == current_move_number
            added == last.h0
        IN  /\ Len(added) = n
            /\ Len(moves) = (n + 1) \div 2
            /\ \A k \in 1..Len(moves) :
                  /\ moves[k].pair_number = k
                  /\ moves[k].white = added[2 * k - 1]
                  /\ moves[k].black = IF 2 * k <= n THEN added[2 * k] ELSE ""
            /\ GetMoveCount(moves) = n

C23_Witness ==
    /\ last.kind = "add"
    /\ current_move_number = 3
    /\ moves = <<[pair_number |-> 1, white |-> "e2e4", black |-> "e7e5"],
                 [pair_number |-> 2, white |-> "g1f3", black |-> ""]>>

\* C24: in a tick after which the loop goes on, move_number stays or grows
\* by one, the board stays or gets one move appended, and move_number grows
\* exactly when one move was appended.
C24_MoveNumberFollowsBoard ==
    (last.kind = "tick" /\ pc = "playing") =>
        /\ move_number \in {last.mn0, last.mn0 + 1}
        /\ \/ board = last.h0
           \/ /\ Len(board) = Len(last.h0) + 1
              /\ SubSeq(board, 1, Len(last.h0)) = last.h0
        /\ (move_number = last.mn0 + 1) <=> (Len(board) = Len(last.h0) + 1)

C24_Witness ==
    /\ last.kind = "tick"
    /\ pc = "playing"
    /\ last.turn = "theirs"
    /\ last.vp = "ok"
    /\ last.mn0 = 2
    /\ move_number = 3
    /\ board = Append(last.h0, "e7e5")

\* C25: a tick asks the engine for a move, and submits one, only on a board
\* whose side to move is our colour; when the interface says our turn, the
\* board says the opponent's and no slot is visible, nothing is submitted.
C25_EngineMovesOnlyOnOurSide ==
    last.kind = "tick" =>
        /\ last.asked = 1 => BoardSaysOurs(last.h0, our_color)
        /\ (last.iface = "yes" /\ ~BoardSaysOurs(last.h0, our_color)
            /\ last.slot = "none") => last.submits = 0

\* C26: a tick in which the engine's move was pushed made the three writes
\* RETURN, clear, move text to the channel, all of them.
C26_PushOnlyAfterCompleteWrite ==
    (last.kind = "tick" /\ last.asked = 1 /\ board # last.h0) =>
        last.writes = <<"RETURN", "CLEAR", last.move>>

\* C27: a tick that raises after the engine answered, as when execute_move
\* finds no input handle, leaves the board, move_number and the latch as
\* they were and is counted as a failed iteration.
C27_RaisedSubmissionChangesNothing ==
    [][(last'.kind = "tick" /\ last'.raised /\ last'.move # "none") =>
          /\ board' = board
          /\ make_move' = make_move
          /\ pc' = "playing" => move_number' = move_number
          /\ \/ consecutive_errors' = consecutive_errors + 1
             \/ last'.health = "failed"]_vars

\* Gated mode without arrows and the latch asserted: after the engine
\* answered, only execute_move can have raised
C27_Witness ==
    /\ last.kind = "tick"
    /\ last.raised
    /\ last.move = "e2e4"
    /\ ~autoplay
    /\ ~show_arrow
    /\ make_move
    /\ pc = "playing"
    /\ board = <<>>
    /\ consecutive_errors = 2

\* C28: in Gated mode a tick submits a move only if that move was already
\* the current suggestion before the tick: the tick that first exposes a
\* suggestion does not submit it on a latch asserted earlier.
C28_NoSubmissionOnStaleLatch ==
    [][(last'.kind = "tick" /\ ~autoplay /\ last'.submits = 1) =>
          current_suggestion = last'.move]_vars

\* C29: in Gated mode with arrows enabled, after a tick that cleared the
\* arrows and drew none (an opponent-turn tick, or a tick absorbing a move
\* already on the page), no arrow is recorded as drawn: _arrow_drawn is true
\* only while the arrow of the suggestion is on the page.
C29_ClearedArrowsResetTracking ==
    (/\ last.kind = "tick"
     /\ ~autoplay
     /\ show_arrow
     /\ ~last.raised
     /\ last.draws = 0
     /\ last.turn = "theirs" \/ last.slot # "none")
    => ~arrow_drawn

\* C30: the error counter is 0 after every tick that raised nothing, is
\* never above 5, and the loop is not in Playing once it is 5.
C30_ErrorCounterResetAndBounded ==
    /\ (last.kind = "tick" /\ ~last.raised) => consecutive_errors = 0
    /\ consecutive_errors <= max_consecutive_errors
    /\ consecutive_errors >= max_consecutive_errors => pc # "playing"

----------------------------------------------------------------------------
(* Claims C31 to C37 *)

\* C31: when the interface-derived and the board-derived turn signal
\* disagree, _is_our_turn raises nothing, returns the arbitrated value (the
\* interface's), and leaves the board, move_number and the suggestion
\* tracking as they were.
C31_DisagreementIsNotFatal ==
    [][(last'.kind = "turn"
        /\ last'.iface # "none"
        /\ (last'.iface = "yes") # BoardSaysOurs(board, our_color)) =>
          /\ ~last'.raised
          /\ last'.turn = (IF last'.iface = "yes" THEN "ours" ELSE "theirs")
          /\ board' = board
          /\ move_number' = move_number
          /\ current_suggestion' = current_suggestion
          /\ arrow_drawn' = arrow_drawn]_vars

C31_Witness ==
    /\ last.kind = "turn"
    /\ last.iface = "yes"
    /\ our_color = "W"
    /\ board = <<"e2e4">>
    /\ current_suggestion = "g1f3"
    /\ last.turn = "ours"
    /\ last.diag = 1

\* The running clocks of a page that are attributed to a colour
Attributed(page) ==
    {i \in 1..Len(page.clocks.list) :
        page.clocks.list[i] \cap {"top", "bottom", "black", "white"} # {}}

\* The colour the code attributes a running clock to
ClockColour(classes) ==
    IF classes \cap {"top", "black"} # {} THEN "B" ELSE "W"

\* The move input is conclusive
InputConclusive(page) ==
    /\ page.input.found = "yes"
    /\ \/ ~page.input.enabled
       \/ page.input.class # {}

\* The running clocks are conclusive: one is attributed to a colour and our
\* colour is found
ClockConclusive(page) ==
    /\ page.clocks.status = "ok"
    /\ Attributed(page) # {}
    /\ page.orientation # "error"

\* The indicator texts are conclusive
IndicatorConclusive(page) ==
    /\ page.indicators.status = "ok"
    /\ \E i \in 1..Len(page.indicators.list) : page.indicators.list[i] # ""

\* C32: the interface signal is the answer of the move input when that is
\* conclusive, else of the running clock, else of the turn indicators; it is
\* None when the move input cannot be read or no method is conclusive; a
\* running clock attributed to colour C answers true exactly when our colour
\* is C.
C32_FirstConclusiveMethod ==
    last.kind = "turn" =>
        /\ InputConclusive(interface) => last.by = "input"
        /\ interface.input.found = "error" => last.iface = "none"
        /\ (interface.input.found # "error" /\ ~InputConclusive(interface)
            /\ ClockConclusive(interface)) =>
              /\ last.by = "clock"
              /\ LET first == CHOOSE i \in Attributed(interface) :
                                 \A j \in Attributed(interface) : i <= j
                 IN  (last.iface = "yes") <=>
                        (interface.orientation
                            = ClockColour(interface.clocks.list[first]))
        /\ (interface.input.found # "error" /\ ~InputConclusive(interface)
            /\ ~ClockConclusive(interface)) =>
              IF IndicatorConclusive(interface)
              THEN last.by = "indicator"
              ELSE last.iface = "none" /\ last.by = "none"
        /\ last.by = "none" <=> last.iface = "none"

C32_Witness ==
    /\ last.kind = "turn"
    /\ interface.input.found = "yes"
    /\ interface.input.enabled
    /\ interface.input.class = {}
    /\ interface.clocks.list = <<{}, {"bottom", "black"}>>
    /\ interface.orientation = "B"
    /\ interface.indicators.list = <<"Waiting for opponent">>
    /\ last.by = "clock"
    /\ last.iface = "yes"

\* C33: the presentation state (the position and the perspective the window
\* displays) changes only in steps of the GUI thread, which take the
\* messages in the order they were put, one at a time.
C33_GuiStateOnlyThroughQueue ==
    [][/\ last'.kind \notin {"gui", "closing"} =>
            /\ board_state' = board_state
            /\ gui_our_color' = gui_our_color
            /\ \/ gui_queue' = gui_queue
               \/ /\ Len(gui_queue') = Len(gui_queue) + 1
                  /\ SubSeq(gui_queue', 1, Len(gui_queue)) = gui_queue
       /\ last'.kind = "gui" =>
            /\ gui_queue # <<>>
            /\ gui_queue' = Tail(gui_queue)
            /\ last'.h0 = Head(gui_queue).at]_vars

\* C37: the GUI history gets one entry per move_made message and loses
\* entries never, so it holds one entry per move of the current game only if
\* every step of the game thread that appends moves to the board puts as
\* many move_made messages, and a step that empties a board holding moves
\* puts a message that empties the history.
C37_EveryPushIsReported ==
    [][(is_running /\ last'.kind \in {"start", "sync", "tick"}) =>
          /\ Len(board') > Len(board) =>
                /\ Len(gui_queue') = Len(gui_queue) + 1
                /\ gui_queue'[Len(gui_queue')].made = Len(board') - Len(board)
          /\ (board # <<>> /\ board' = <<>>) => gui_queue' # gui_queue]_vars

\* C36: start_new_game calls wait_for_game_ready at most 3 times; when the
\* third attempt finds the interface not ready, or an attempt raises and is
\* not recovered, it returns: the colour, the board and move_number stay as
\* they were, and no synchronization and no tick follows.
C36_AtMostThreeWaits ==
    [][/\ last'.kind = "ready" =>
            /\ last'.reads \in 1..3
            /\ pc' \in {"sync", "stopped"}
            /\ pc' = "sync" => ~last'.raised
            /\ (pc' = "stopped" /\ ~last'.raised) => last'.reads = 3
            /\ pc' = "stopped" =>
                  /\ our_color' = our_color
                  /\ gui_our_color' = gui_our_color
                  /\ board' = board
                  /\ move_number' = move_number
       /\ pc = "stopped" =>
            /\ pc' = "stopped"
            /\ last'.kind \notin {"sync", "tick"}]_vars

C36_Witness ==
    /\ last.kind = "ready"
    /\ pc = "stopped"
    /\ last.reads = 3
    /\ ~last.raised

\* The file sets general/auto-play to true, in any letter case
SetsAutoplayTrue(file) ==
    file.exists /\ Lower(file.general["auto-play"]) = "true"

\* C34: autoplay is enabled only if the loaded configuration sets
\* general/auto-play to true, and when an existing config.ini has no
\* auto-play option (for example only the legacy AutoPlay one),
\* is_autoplay_enabled is false, so that the gated handler is taken.
C34_AutoplayOnlyWhenSet ==
    [][last'.kind = "config" =>
          /\ autoplay' => SetsAutoplayTrue(config_file')
          /\ (config_file.exists /\ config_file.general["auto-play"] = "absent")
                => ~autoplay']_vars

C35_FreshWitness ==
    /\ last.kind = "sync"
    /\ channel = <<>>
    /\ last.n = 1
    /\ board = <<>>

====
